---------------------------- MODULE Spec2Model ----------------------------
(***************************************************************************)
(* Repository relevance analysis and ranking engine of src/mcp/coding.py.  *)
(*                                                                         *)
(* Text is modelled as a sequence of one-character strings, so that the    *)
(* report the analyzer composes and the substring counting the ranker does *)
(* on it are computed character by character, as the Python code does.     *)
(***************************************************************************)
EXTENDS Integers, Sequences, FiniteSets, TLC

VARIABLES
    root,         \* state of the coding directory /mnt/q/
    listing,      \* os.listdir(coding_dir), in the order the OS yields it
    disk,         \* the tree below each entry of /mnt/q/
    moved,        \* how many files move_repository_file has moved
    broken,       \* candidates whose analysis raises an exception
    pc,           \* position of the caller / of find_best_repositories_for_task
    task,         \* argument task_description of the current call
    max_repos,    \* argument max_repos of the current call
    repos,        \* local repos (line 280)
    idx,          \* position of the for loop of line 288 in repos[:max_repos]
    repo_scores,  \* local repo_scores (line 286)
    pos,          \* position of the for loop of line 321 in repo_scores
    result,       \* local result (line 319), the returned text once pc = "done"
    previous,     \* what the previous call with the same arguments returned
    out           \* what the last call of one of the other tools returned

vars == <<root, listing, disk, moved, broken, pc, task, max_repos, repos, idx,
          repo_scores, pos, result, previous, out>>

(***************************************************************************)
(* String literals of the source.                                          *)
(***************************************************************************)

\* "File '"
MsgFilePrefix ==
    <<"F", "i", "l", "e", " ", "'">>

\* "' does not exist in repository '"
MsgFileMissingMid ==
    <<"'", " ", "d", "o", "e", "s", " ", "n", "o", "t", " ", "e", "x", "i", "s", "t", " ", "i",
      "n", " ", "r", "e", "p", "o", "s", "i", "t", "o", "r", "y", " ", "'">>

\* "'."
MsgQuoteDot ==
    <<"'", ".">>

\* "' appears to be a binary file and cannot be read as text."
MsgFileBinaryTail ==
    <<"'", " ", "a", "p", "p", "e", "a", "r", "s", " ", "t", "o", " ", "b", "e", " ", "a", " ",
      "b", "i", "n", "a", "r", "y", " ", "f", "i", "l", "e", " ", "a", "n", "d", " ", "c", "a",
      "n", "n", "o", "t", " ", "b", "e", " ", "r", "e", "a", "d", " ", "a", "s", " ", "t", "e",
      "x", "t", ".">>

\* "Error reading file '"
MsgErrorReadingPrefix ==
    <<"E", "r", "r", "o", "r", " ", "r", "e", "a", "d", "i", "n", "g", " ", "f", "i", "l", "e",
      " ", "'">>

\* "': "
MsgQuoteColonSpace ==
    <<"'", ":", " ">>

\* 'File'
PrefixFile ==
    <<"F", "i", "l", "e">>

\* 'Error'
PrefixError ==
    <<"E", "r", "r", "o", "r">>

\* 'README'
PrefixREADME ==
    <<"R", "E", "A", "D", "M", "E">>

\* "No README files found in repository '"
MsgNoReadmePrefix ==
    <<"N", "o", " ", "R", "E", "A", "D", "M", "E", " ", "f", "i", "l", "e", "s", " ", "f", "o",
      "u", "n", "d", " ", "i", "n", " ", "r", "e", "p", "o", "s", "i", "t", "o", "r", "y", " ",
      "'">>

\* "README files found in '"
MsgReadmeFoundPrefix ==
    <<"R", "E", "A", "D", "M", "E", " ", "f", "i", "l", "e", "s", " ", "f", "o", "u", "n", "d",
      " ", "i", "n", " ", "'">>

\* "':\n\n"
MsgQuoteColonBlank ==
    <<"'", ":", "\n", "\n">>

\* '=== '
EntryOpen ==
    <<"=", "=", "=", " ">>

\* ' ===\n'
EntryClose ==
    <<" ", "=", "=", "=", "\n">>

\* '...'
Ellipsis ==
    <<".", ".", ".">>

\* '\n\n'
BlankLine ==
    <<"\n", "\n">>

\* "Repository '"
MsgRepositoryPrefix ==
    <<"R", "e", "p", "o", "s", "i", "t", "o", "r", "y", " ", "'">>

\* "' does not exist."
MsgNotExistTail ==
    <<"'", " ", "d", "o", "e", "s", " ", "n", "o", "t", " ", "e", "x", "i", "s", "t", ".">>

\* "No code files found in repository '"
MsgNoCodePrefix ==
    <<"N", "o", " ", "c", "o", "d", "e", " ", "f", "i", "l", "e", "s", " ", "f", "o", "u", "n",
      "d", " ", "i", "n", " ", "r", "e", "p", "o", "s", "i", "t", "o", "r", "y", " ", "'">>

\* "' Analysis:\n\n"
MsgAnalysisTail ==
    <<"'", " ", "A", "n", "a", "l", "y", "s", "i", "s", ":", "\n", "\n">>

\* 'Tech Stack: '
MsgTechStack ==
    <<"T", "e", "c", "h", " ", "S", "t", "a", "c", "k", ":", " ">>

\* ', '
CommaSpace ==
    <<",", " ">>

\* '\n'
Newline ==
    <<"\n">>

\* 'Total code files: '
MsgTotalCodeFiles ==
    <<"T", "o", "t", "a", "l", " ", "c", "o", "d", "e", " ", "f", "i", "l", "e", "s", ":", " ">>

\* ' ('
SpaceParen ==
    <<" ", "(">>

\* ') ===\n'
ParenEntryClose ==
    <<")", " ", "=", "=", "=", "\n">>

\* "Analysis of '"
MsgAnalysisOf ==
    <<"A", "n", "a", "l", "y", "s", "i", "s", " ", "o", "f", " ", "'">>

\* "' for task: '"
MsgForTask ==
    <<"'", " ", "f", "o", "r", " ", "t", "a", "s", "k", ":", " ", "'">>

\* "'\n\n"
MsgQuoteBlank ==
    <<"'", "\n", "\n">>

\* 'README Summary:\n'
MsgReadmeSummary ==
    <<"R", "E", "A", "D", "M", "E", " ", "S", "u", "m", "m", "a", "r", "y", ":", "\n">>

\* 'Code Sample:\n'
MsgCodeSample ==
    <<"C", "o", "d", "e", " ", "S", "a", "m", "p", "l", "e", ":", "\n">>

\* 'Relevant for '
MsgRelevantFor ==
    <<"R", "e", "l", "e", "v", "a", "n", "t", " ", "f", "o", "r", " ">>

\* ': found '
MsgFound ==
    <<":", " ", "f", "o", "u", "n", "d", " ">>

\* 'Relevance Analysis:\n'
MsgRelevanceAnalysis ==
    <<"R", "e", "l", "e", "v", "a", "n", "c", "e", " ", "A", "n", "a", "l", "y", "s", "i", "s",
      ":", "\n">>

\* 'No specific relevance indicators found for the given task.'
MsgNoRelevance ==
    <<"N", "o", " ", "s", "p", "e", "c", "i", "f", "i", "c", " ", "r", "e", "l", "e", "v", "a",
      "n", "c", "e", " ", "i", "n", "d", "i", "c", "a", "t", "o", "r", "s", " ", "f", "o", "u",
      "n", "d", " ", "f", "o", "r", " ", "t", "h", "e", " ", "g", "i", "v", "e", "n", " ", "t",
      "a", "s", "k", ".">>

\* 'No repositories found in the coding directory.'
MsgNoRepositories ==
    <<"N", "o", " ", "r", "e", "p", "o", "s", "i", "t", "o", "r", "i", "e", "s", " ", "f", "o",
      "u", "n", "d", " ", "i", "n", " ", "t", "h", "e", " ", "c", "o", "d", "i", "n", "g", " ",
      "d", "i", "r", "e", "c", "t", "o", "r", "y", ".">>

\* 'README files found'
MarkReadmeFound ==
    <<"R", "E", "A", "D", "M", "E", " ", "f", "i", "l", "e", "s", " ", "f", "o", "u", "n", "d">>

\* 'No README files found'
MarkNoReadme ==
    <<"N", "o", " ", "R", "E", "A", "D", "M", "E", " ", "f", "i", "l", "e", "s", " ", "f", "o",
      "u", "n", "d">>

\* 'Tech Stack:'
MarkTechStack ==
    <<"T", "e", "c", "h", " ", "S", "t", "a", "c", "k", ":">>

\* 'Error analyzing repository: '
MsgErrorAnalyzing ==
    <<"E", "r", "r", "o", "r", " ", "a", "n", "a", "l", "y", "z", "i", "n", "g", " ", "r", "e",
      "p", "o", "s", "i", "t", "o", "r", "y", ":", " ">>

\* "Best repositories for task: '"
MsgBestRepositories ==
    <<"B", "e", "s", "t", " ", "r", "e", "p", "o", "s", "i", "t", "o", "r", "i", "e", "s", " ",
      "f", "o", "r", " ", "t", "a", "s", "k", ":", " ", "'">>

\* '. '
DotSpace ==
    <<".", " ">>

\* ' (Score: '
MsgScoreOpen ==
    <<" ", "(", "S", "c", "o", "r", "e", ":", " ">>

\* ')\n'
MsgScoreClose ==
    <<")", "\n">>

\* '   '
Indent ==
    <<" ", " ", " ">>

(***************************************************************************)
(* Python's str operations, on sequences of characters.                    *)
(***************************************************************************)

UpperLetters ==
    <<"A", "B", "C", "D", "E", "F", "G", "H", "I", "J", "K", "L", "M",
      "N", "O", "P", "Q", "R", "S", "T", "U", "V", "W", "X", "Y", "Z">>

LowerLetters ==
    <<"a", "b", "c", "d", "e", "f", "g", "h", "i", "j", "k", "l", "m",
      "n", "o", "p", "q", "r", "s", "t", "u", "v", "w", "x", "y", "z">>

Digits ==
    <<"0", "1", "2", "3", "4", "5", "6", "7", "8", "9">>

\* the characters str.split() and str.strip() treat as whitespace
Whitespace ==
    {" ", "\t", "\n", "\r", "\f"}

ToLower ==
    [c \in {UpperLetters[i] : i \in 1..26} |->
        LowerLetters[CHOOSE i \in 1..26 : UpperLetters[i] = c]]

ToUpper ==
    [c \in {LowerLetters[i] : i \in 1..26} |->
        UpperLetters[CHOOSE i \in 1..26 : LowerLetters[i] = c]]

\* a sequence given as a function on 1..n, as a sequence
AsSeq(f) ==
    SubSeq(f, 1, Len(f))

\* str.lower()
lower(s) ==
    AsSeq([i \in 1..Len(s) |-> IF s[i] \in DOMAIN ToLower THEN ToLower[s[i]] ELSE s[i]])

\* str.upper()
upper(s) ==
    AsSeq([i \in 1..Len(s) |-> IF s[i] \in DOMAIN ToUpper THEN ToUpper[s[i]] ELSE s[i]])

\* s[:n] for n >= 0
Prefix(s, n) ==
    SubSeq(s, 1, IF n < Len(s) THEN n ELSE Len(s))

\* s.startswith(p)
startswith(s, p) ==
    /\ Len(p) <= Len(s)
    /\ SubSeq(s, 1, Len(p)) = p

\* the positions at which w occurs in s
Occurrences(s, w) ==
    {i \in 1..(Len(s) - Len(w) + 1) : \A k \in 1..Len(w) : s[i + k - 1] = w[k]}

\* w in s
contains(s, w) ==
    Occurrences(s, w) # {}

RECURSIVE CountFrom(_, _, _)
CountFrom(occ, width, from) ==
    LET rest == {i \in occ : i >= from}
    IN  IF rest = {} THEN 0
        ELSE LET first == CHOOSE i \in rest : \A j \in rest : i <= j
             IN  1 + CountFrom(occ, width, first + width)

\* s.count(w): the number of non-overlapping occurrences, found left to right
count(s, w) ==
    CountFrom(Occurrences(s, w), Len(w), 1)

RECURSIVE SplitFrom(_, _, _, _)
SplitFrom(s, i, cur, acc) ==
    IF i > Len(s) THEN (IF cur = <<>> THEN acc ELSE Append(acc, cur))
    ELSE IF s[i] \in Whitespace
         THEN SplitFrom(s, i + 1, <<>>, IF cur = <<>> THEN acc ELSE Append(acc, cur))
         ELSE SplitFrom(s, i + 1, Append(cur, s[i]), acc)

\* s.split(): the maximal runs of non-whitespace characters
split(s) ==
    SplitFrom(s, 1, <<>>, <<>>)

RECURSIVE CutAt(_, _, _)
CutAt(s, cuts, from) ==
    LET rest == {i \in cuts : i >= from}
    IN  IF rest = {} THEN <<SubSeq(s, from, Len(s))>>
        ELSE LET first == CHOOSE i \in rest : \A j \in rest : i <= j
             IN  <<SubSeq(s, from, first - 1)>> \o CutAt(s, cuts, first + 1)

\* s.split('\n'): the pieces between newlines, empty pieces kept
splitlines(s) ==
    CutAt(s, {i \in 1..Len(s) : s[i] = "\n"}, 1)

\* s.strip()
strip(s) ==
    LET keep == {i \in 1..Len(s) : s[i] \notin Whitespace}
    IN  IF keep = {} THEN <<>>
        ELSE SubSeq(s, CHOOSE i \in keep : \A j \in keep : i <= j,
                       CHOOSE i \in keep : \A j \in keep : i >= j)

RECURSIVE join(_, _)
\* sep.join(parts)
join(sep, parts) ==
    IF parts = <<>> THEN <<>>
    ELSE IF Len(parts) = 1 THEN parts[1]
    ELSE parts[1] \o sep \o join(sep, Tail(parts))

RECURSIVE NatToStr(_)
NatToStr(n) ==
    IF n < 10 THEN <<Digits[n + 1]>>
    ELSE Append(NatToStr(n \div 10), Digits[(n % 10) + 1])

\* str(n) of an int
str(n) ==
    IF n < 0 THEN <<"-">> \o NatToStr(0 - n) ELSE NatToStr(n)

RECURSIVE ReprItems(_)
ReprItems(items) ==
    IF items = <<>> THEN <<>>
    ELSE <<"'">> \o items[1] \o <<"'">>
         \o (IF Len(items) = 1 THEN <<>> ELSE CommaSpace \o ReprItems(Tail(items)))

\* str() of a list of plain strings, as an f-string prints it: ['a', 'b']
repr_list(items) ==
    <<"[">> \o ReprItems(items) \o <<"]">>

\* os.path.splitext(name)[1]: from the last dot on, unless only dots precede it
splitext(name) ==
    LET dots == {i \in 1..Len(name) : name[i] = "."}
    IN  IF dots = {} THEN <<>>
        ELSE LET last == CHOOSE i \in dots : \A j \in dots : i >= j
             IN  IF \E j \in 1..(last - 1) : name[j] # "."
                 THEN SubSeq(name, last, Len(name))
                 ELSE <<>>

\* os.path.relpath(os.path.join(root, file), repo_path)
relpath(dir, file) ==
    join(<<"/">>, Append(dir, file))

\* seq[:n] of a Python list, n any integer: a negative n counts from the end
Slice(seq, n) ==
    IF n >= 0 THEN SubSeq(seq, 1, IF n < Len(seq) THEN n ELSE Len(seq))
    ELSE SubSeq(seq, 1, IF Len(seq) + n > 0 THEN Len(seq) + n ELSE 0)

\* the extension -> language table of sample_repository_code, in source order
code_extensions ==
    <<[ext |-> <<".", "p", "y">>, language |-> <<"P", "y", "t", "h", "o", "n">>],
      [ext |-> <<".", "j", "s">>, language |-> <<"J", "a", "v", "a", "S", "c", "r", "i", "p", "t">>],
      [ext |-> <<".", "t", "s">>, language |-> <<"T", "y", "p", "e", "S", "c", "r", "i", "p", "t">>],
      [ext |-> <<".", "j", "a", "v", "a">>, language |-> <<"J", "a", "v", "a">>],
      [ext |-> <<".", "c", "p", "p">>, language |-> <<"C", "+", "+">>],
      [ext |-> <<".", "c">>, language |-> <<"C">>],
      [ext |-> <<".", "c", "s">>, language |-> <<"C", "#">>],
      [ext |-> <<".", "g", "o">>, language |-> <<"G", "o">>],
      [ext |-> <<".", "r", "s">>, language |-> <<"R", "u", "s", "t">>],
      [ext |-> <<".", "p", "h", "p">>, language |-> <<"P", "H", "P">>],
      [ext |-> <<".", "r", "b">>, language |-> <<"R", "u", "b", "y">>],
      [ext |-> <<".", "s", "w", "i", "f", "t">>, language |-> <<"S", "w", "i", "f", "t">>],
      [ext |-> <<".", "k", "t">>, language |-> <<"K", "o", "t", "l", "i", "n">>],
      [ext |-> <<".", "s", "c", "a", "l", "a">>, language |-> <<"S", "c", "a", "l", "a">>],
      [ext |-> <<".", "s", "h">>, language |-> <<"S", "h", "e", "l", "l", " ", "S", "c", "r", "i", "p", "t">>],
      [ext |-> <<".", "y", "m", "l">>, language |-> <<"Y", "A", "M", "L">>],
      [ext |-> <<".", "y", "a", "m", "l">>, language |-> <<"Y", "A", "M", "L">>],
      [ext |-> <<".", "j", "s", "o", "n">>, language |-> <<"J", "S", "O", "N">>],
      [ext |-> <<".", "x", "m", "l">>, language |-> <<"X", "M", "L">>],
      [ext |-> <<".", "h", "t", "m", "l">>, language |-> <<"H", "T", "M", "L">>],
      [ext |-> <<".", "c", "s", "s">>, language |-> <<"C", "S", "S">>],
      [ext |-> <<".", "s", "c", "s", "s">>, language |-> <<"S", "C", "S", "S">>],
      [ext |-> <<".", "s", "a", "s", "s">>, language |-> <<"S", "A", "S", "S">>],
      [ext |-> <<".", "v", "u", "e">>, language |-> <<"V", "u", "e", ".", "j", "s">>],
      [ext |-> <<".", "j", "s", "x">>, language |-> <<"R", "e", "a", "c", "t", " ", "J", "S", "X">>],
      [ext |-> <<".", "t", "s", "x">>, language |-> <<"R", "e", "a", "c", "t", " ", "T", "y", "p", "e", "S", "c", "r", "i", "p", "t">>]>>

\* the languages of code_extensions in the order sorted() puts them (by code point)
SortedLanguages ==
    <<<<"C">>,
      <<"C", "#">>,
      <<"C", "+", "+">>,
      <<"C", "S", "S">>,
      <<"G", "o">>,
      <<"H", "T", "M", "L">>,
      <<"J", "S", "O", "N">>,
      <<"J", "a", "v", "a">>,
      <<"J", "a", "v", "a", "S", "c", "r", "i", "p", "t">>,
      <<"K", "o", "t", "l", "i", "n">>,
      <<"P", "H", "P">>,
      <<"P", "y", "t", "h", "o", "n">>,
      <<"R", "e", "a", "c", "t", " ", "J", "S", "X">>,
      <<"R", "e", "a", "c", "t", " ", "T", "y", "p", "e", "S", "c", "r", "i", "p", "t">>,
      <<"R", "u", "b", "y">>,
      <<"R", "u", "s", "t">>,
      <<"S", "A", "S", "S">>,
      <<"S", "C", "S", "S">>,
      <<"S", "c", "a", "l", "a">>,
      <<"S", "h", "e", "l", "l", " ", "S", "c", "r", "i", "p", "t">>,
      <<"S", "w", "i", "f", "t">>,
      <<"T", "y", "p", "e", "S", "c", "r", "i", "p", "t">>,
      <<"V", "u", "e", ".", "j", "s">>,
      <<"X", "M", "L">>,
      <<"Y", "A", "M", "L">>>>

\* the directories os.walk is told not to descend into
excluded_dirs ==
    {<<".", "g", "i", "t">>,
     <<".", "v", "s", "c", "o", "d", "e">>,
     <<"_", "_", "p", "y", "c", "a", "c", "h", "e", "_", "_">>,
     <<"n", "o", "d", "e", "_", "m", "o", "d", "u", "l", "e", "s">>,
     <<".", "n", "e", "x", "t">>,
     <<"d", "i", "s", "t">>,
     <<"b", "u", "i", "l", "d">>}

\* the domain -> keywords table of analyze_repository_for_task, in source order
tech_keywords ==
    <<[category |-> <<"w", "e", "b">>,
       keywords |-> <<<<"h", "t", "m", "l">>,
                    <<"c", "s", "s">>,
                    <<"j", "a", "v", "a", "s", "c", "r", "i", "p", "t">>,
                    <<"r", "e", "a", "c", "t">>,
                    <<"v", "u", "e">>,
                    <<"a", "n", "g", "u", "l", "a", "r">>,
                    <<"n", "o", "d", "e">>>>],
      [category |-> <<"a", "p", "i">>,
       keywords |-> <<<<"a", "p", "i">>,
                    <<"r", "e", "s", "t">>,
                    <<"g", "r", "a", "p", "h", "q", "l">>,
                    <<"e", "n", "d", "p", "o", "i", "n", "t">>,
                    <<"s", "e", "r", "v", "e", "r">>,
                    <<"b", "a", "c", "k", "e", "n", "d">>>>],
      [category |-> <<"d", "a", "t", "a">>,
       keywords |-> <<<<"d", "a", "t", "a">>,
                    <<"s", "q", "l">>,
                    <<"d", "a", "t", "a", "b", "a", "s", "e">>,
                    <<"a", "n", "a", "l", "y", "t", "i", "c", "s">>,
                    <<"p", "a", "n", "d", "a", "s">>,
                    <<"n", "u", "m", "p", "y">>>>],
      [category |-> <<"m", "a", "c", "h", "i", "n", "e", " ", "l", "e", "a", "r", "n", "i", "n", "g">>,
       keywords |-> <<<<"m", "l">>,
                    <<"a", "i">>,
                    <<"t", "e", "n", "s", "o", "r", "f", "l", "o", "w">>,
                    <<"p", "y", "t", "o", "r", "c", "h">>,
                    <<"s", "k", "l", "e", "a", "r", "n">>,
                    <<"m", "o", "d", "e", "l">>>>],
      [category |-> <<"m", "o", "b", "i", "l", "e">>,
       keywords |-> <<<<"a", "n", "d", "r", "o", "i", "d">>,
                    <<"i", "o", "s">>,
                    <<"s", "w", "i", "f", "t">>,
                    <<"k", "o", "t", "l", "i", "n">>,
                    <<"r", "e", "a", "c", "t", " ", "n", "a", "t", "i", "v", "e">>,
                    <<"f", "l", "u", "t", "t", "e", "r">>>>],
      [category |-> <<"d", "e", "s", "k", "t", "o", "p">>,
       keywords |-> <<<<"e", "l", "e", "c", "t", "r", "o", "n">>,
                    <<"q", "t">>,
                    <<"t", "k", "i", "n", "t", "e", "r">>,
                    <<"j", "a", "v", "a", "f", "x">>,
                    <<"w", "p", "f">>>>],
      [category |-> <<"g", "a", "m", "e">>,
       keywords |-> <<<<"g", "a", "m", "e">>,
                    <<"u", "n", "i", "t", "y">>,
                    <<"u", "n", "r", "e", "a", "l">>,
                    <<"p", "y", "g", "a", "m", "e">>,
                    <<"g", "o", "d", "o", "t">>>>],
      [category |-> <<"a", "u", "t", "o", "m", "a", "t", "i", "o", "n">>,
       keywords |-> <<<<"a", "u", "t", "o", "m", "a", "t", "i", "o", "n">>,
                    <<"s", "c", "r", "i", "p", "t">>,
                    <<"s", "e", "l", "e", "n", "i", "u", "m">>,
                    <<"a", "n", "s", "i", "b", "l", "e">>,
                    <<"t", "e", "r", "r", "a", "f", "o", "r", "m">>>>]>>

\* '/mnt/q/'
coding_dir ==
    <<"/", "m", "n", "t", "/", "q", "/">>

\* 'A'
NameA ==
    <<"A">>

\* 'data'
NameData ==
    <<"d", "a", "t", "a">>

\* 'H'
NameH ==
    <<"H">>

\* 'R'
NameR ==
    <<"R">>

\* 'F'
NameF ==
    <<"F">>

\* 'data analysis project'
TaskData ==
    <<"d", "a", "t", "a", " ", "a", "n", "a", "l", "y", "s", "i", "s", " ", "p", "r", "o", "j",
      "e", "c", "t">>

\* 'data analysis project web'
TaskDataWeb ==
    <<"d", "a", "t", "a", " ", "a", "n", "a", "l", "y", "s", "i", "s", " ", "p", "r", "o", "j",
      "e", "c", "t", " ", "w", "e", "b">>

\* 'web api'
TaskShort ==
    <<"w", "e", "b", " ", "a", "p", "i">>

\* "[Errno 13] Permission denied: '"
ErrnoDenied ==
    <<"[", "E", "r", "r", "n", "o", " ", "1", "3", "]", " ", "P", "e", "r", "m", "i", "s", "s",
      "i", "o", "n", " ", "d", "e", "n", "i", "e", "d", ":", " ", "'">>

\* 'I/O error'
ErrAnalysis ==
    <<"I", "/", "O", " ", "e", "r", "r", "o", "r">>

\* /mnt/q/A: an empty directory
DiskA ==
    [isdir |-> TRUE,
     walk |-> <<[path |-> <<>>,
       files |-> <<>>]>>]

\* /mnt/q/data: a directory holding only notes.txt ("todo")
DiskData ==
    [isdir |-> TRUE,
     walk |-> <<[path |-> <<>>,
       files |-> <<[name |-> <<"n", "o", "t", "e", "s", ".", "t", "x", "t">>, kind |-> "text",
                 content |-> <<"t", "o", "d", "o">>]>>]>>]

\* /mnt/q/H: README.md ("Data Data Data"), index.html (" <p>hi</p>\n"), logo.json
\* (not UTF-8), gone.py (a dangling link), lock.yml (no read permission), and
\* build/gen.js ("x = 1")
DiskH ==
    [isdir |-> TRUE,
     walk |-> <<[path |-> <<>>,
       files |-> <<[name |-> <<"R", "E", "A", "D", "M", "E", ".", "m", "d">>, kind |-> "text",
                 content |-> <<"D", "a", "t", "a", " ", "D", "a", "t", "a", " ", "D", "a", "t", "a">>],
                [name |-> <<"i", "n", "d", "e", "x", ".", "h", "t", "m", "l">>, kind |-> "text",
                 content |-> <<" ", "<", "p", ">", "h", "i", "<", "/", "p", ">", "\n">>],
                [name |-> <<"l", "o", "g", "o", ".", "j", "s", "o", "n">>, kind |-> "binary",
                 content |-> <<>>],
                [name |-> <<"g", "o", "n", "e", ".", "p", "y">>, kind |-> "missing",
                 content |-> <<>>],
                [name |-> <<"l", "o", "c", "k", ".", "y", "m", "l">>, kind |-> "unreadable",
                 content |-> <<>>]>>],
      [path |-> <<<<"b", "u", "i", "l", "d">>>>,
       files |-> <<[name |-> <<"g", "e", "n", ".", "j", "s">>, kind |-> "text",
                 content |-> <<"x", " ", "=", " ", "1">>]>>]>>]

\* /mnt/q/R: a directory holding only Readme ("Tech Stack: html")
DiskR ==
    [isdir |-> TRUE,
     walk |-> <<[path |-> <<>>,
       files |-> <<[name |-> <<"R", "e", "a", "d", "m", "e">>, kind |-> "text",
                 content |-> <<"T", "e", "c", "h", " ", "S", "t", "a", "c", "k", ":", " ", "h", "t", "m", "l">>]>>]>>]

\* /mnt/q/F: a regular file
DiskF ==
    [isdir |-> FALSE, walk |-> <<>>]

(***************************************************************************)
(* Numbers of the source.                                                  *)
(***************************************************************************)

ReadmeLimit == 3
ReadmeBudget == 500
CodeBudget == 200
AnalyzeMaxFiles == 3
MinWordLen == 3
WordWeight == 2
ReadmeBonus == 5
CodeBonus == 3
SummaryWindow == 10
SummaryLines == 5
DefaultMaxRepos == 5
DefaultMaxFiles == 5

\* 'N'
NameN ==
    <<"N">>

\* 'L'
NameL ==
    <<"L">>

\* 'M'
NameM ==
    <<"M">>

\* a text of n characters on one line
Filler(n) ==
    AsSeq([i \in 1..n |-> "x"])

\* /mnt/q/N: a directory holding only Readme ("\n\n\n\nNo README files found")
DiskN ==
    [isdir |-> TRUE,
     walk |-> <<[path |-> <<>>,
       files |-> <<[name |-> <<"R", "e", "a", "d", "m", "e">>, kind |-> "text",
                 content |-> <<"\n", "\n", "\n", "\n", "N", "o", " ", "R", "E", "A", "D", "M", "E", " ", "f", "i", "l", "e", "s", " ", "f", "o", "u", "n", "d">>]>>]>>]

\* /mnt/q/L: README.md (one character more than a documentation preview
\* holds), readme.txt, big.py (two blanks, then as many characters as a code
\* preview holds), five short code files, src/main.py,
\* src/node_modules/README, src/node_modules/dep.js and build/out.js
DiskL ==
    [isdir |-> TRUE,
     walk |-> <<[path |-> <<>>,
       files |-> <<[name |-> <<"R", "E", "A", "D", "M", "E", ".", "m", "d">>, kind |-> "text",
                 content |-> Filler(ReadmeBudget + 1)],
                [name |-> <<"r", "e", "a", "d", "m", "e", ".", "t", "x", "t">>, kind |-> "text",
                 content |-> <<"s", "e", "c", "o", "n", "d">>],
                [name |-> <<"b", "i", "g", ".", "p", "y">>, kind |-> "text",
                 content |-> <<" ", " ">> \o Filler(CodeBudget)],
                [name |-> <<"a", ".", "j", "s">>, kind |-> "text",
                 content |-> <<"1">>],
                [name |-> <<"b", ".", "c", "s", "s">>, kind |-> "text",
                 content |-> <<"2">>],
                [name |-> <<"c", ".", "t", "s">>, kind |-> "text",
                 content |-> <<"3">>],
                [name |-> <<"d", ".", "g", "o">>, kind |-> "text",
                 content |-> <<"4">>],
                [name |-> <<"e", ".", "r", "b">>, kind |-> "text",
                 content |-> <<"5">>]>>],
      [path |-> <<<<"s", "r", "c">>>>,
       files |-> <<[name |-> <<"m", "a", "i", "n", ".", "p", "y">>, kind |-> "text",
                 content |-> <<"6">>]>>],
      [path |-> <<<<"s", "r", "c">>, <<"n", "o", "d", "e", "_", "m", "o", "d", "u", "l", "e", "s">>>>,
       files |-> <<[name |-> <<"R", "E", "A", "D", "M", "E">>, kind |-> "text",
                 content |-> <<"d", "e", "p">>],
                [name |-> <<"d", "e", "p", ".", "j", "s">>, kind |-> "text",
                 content |-> <<"7">>]>>],
      [path |-> <<<<"b", "u", "i", "l", "d">>>>,
       files |-> <<[name |-> <<"o", "u", "t", ".", "j", "s">>, kind |-> "text",
                 content |-> <<"8">>]>>]>>]

\* /mnt/q/M: README (exactly as many characters as a documentation preview
\* holds), log.py ("Error handling") and docs/README ("File formats")
DiskM ==
    [isdir |-> TRUE,
     walk |-> <<[path |-> <<>>,
       files |-> <<[name |-> <<"R", "E", "A", "D", "M", "E">>, kind |-> "text",
                 content |-> Filler(ReadmeBudget)],
                [name |-> <<"l", "o", "g", ".", "p", "y">>, kind |-> "text",
                 content |-> <<"E", "r", "r", "o", "r", " ", "h", "a", "n", "d", "l", "i", "n", "g">>]>>],
      [path |-> <<<<"d", "o", "c", "s">>>>,
       files |-> <<[name |-> <<"R", "E", "A", "D", "M", "E">>, kind |-> "text",
                 content |-> <<"F", "i", "l", "e", " ", "f", "o", "r", "m", "a", "t", "s">>]>>]>>]

\* what /mnt/q/ can hold: for each entry name, the tree below it
Disk ==
    (NameA :> DiskA) @@ (NameData :> DiskData) @@ (NameH :> DiskH)
        @@ (NameR :> DiskR) @@ (NameF :> DiskF) @@ (NameN :> DiskN)
        @@ (NameL :> DiskL) @@ (NameM :> DiskM)

\* the entries a ranked coding directory is drawn from; A is never listed: it
\* is the candidate that is not there when a tool is called on it
Entries ==
    {NameData, NameH, NameR, NameF, NameN}

\* the task descriptions a caller passes
Tasks ==
    {TaskData, TaskDataWeb, TaskShort}

(***************************************************************************)
(* The file-access functions.                                              *)
(***************************************************************************)

\* os.path.exists(p) and os.path.isdir(p) of an entry of the coding directory
isdir(repo_name) ==
    /\ \E i \in 1..Len(listing) : listing[i] = repo_name
    /\ repo_name \in DOMAIN disk
    /\ disk[repo_name].isdir

\* os.path.exists('/mnt/q/'): the trailing slash makes stat fail on a regular file
root_exists ==
    root \in {"dir", "unlistable"}

\* list_coding_directories: what it returns, or that os.listdir raised
list_coding_directories ==
    IF ~root_exists THEN [raised |-> FALSE, value |-> <<>>]
    ELSE IF root = "unlistable" THEN [raised |-> TRUE, value |-> <<>>]
    ELSE [raised |-> FALSE, value |-> SelectSeq(listing, isdir)]

RECURSIVE FilesOf(_)
\* the (relative path, file) pairs of a walk, directory by directory
FilesOf(walk) ==
    IF walk = <<>> THEN <<>>
    ELSE AsSeq([i \in 1..Len(walk[1].files) |->
                  [path |-> relpath(walk[1].path, walk[1].files[i].name),
                   file |-> walk[1].files[i]]])
         \o FilesOf(Tail(walk))

\* the file a relative path of a repository names, as open() finds it
Lookup(repo_name, file_path) ==
    LET all == IF isdir(repo_name) THEN FilesOf(disk[repo_name].walk) ELSE <<>>
        hit == {i \in 1..Len(all) : all[i].path = file_path}
    IN  IF hit = {} \/ all[CHOOSE i \in hit : TRUE].file.kind = "missing"
        THEN [kind |-> "missing", content |-> <<>>]
        ELSE all[CHOOSE i \in hit : TRUE].file

read_repository_file(repo_name, file_path) ==
    LET file == Lookup(repo_name, file_path)
    IN  IF file.kind = "missing"
        THEN MsgFilePrefix \o file_path \o MsgFileMissingMid \o repo_name \o MsgQuoteDot
        ELSE IF file.kind = "binary"
        THEN MsgFilePrefix \o file_path \o MsgFileBinaryTail
        ELSE IF file.kind = "unreadable"
        THEN MsgErrorReadingPrefix \o file_path \o MsgQuoteColonSpace
             \o ErrnoDenied \o coding_dir \o repo_name \o <<"/">> \o file_path \o <<"'">>
        ELSE file.content

(***************************************************************************)
(* Content Sampler.                                                        *)
(***************************************************************************)

readme_patterns ==
    <<<<"R", "E", "A", "D", "M", "E", "*">>,
      <<"r", "e", "a", "d", "m", "e", "*">>,
      <<"R", "e", "a", "d", "m", "e", "*">>>>

IsReadme(file) ==
    startswith(upper(file.name), PrefixREADME)

\* one directory of the walk: per pattern, the first matching file, then break
ReadmesIn(dir) ==
    LET hits == SelectSeq(dir.files, IsReadme)
    IN  IF hits = <<>> THEN <<>>
        ELSE AsSeq([p \in 1..Len(readme_patterns) |-> relpath(dir.path, hits[1].name)])

RECURSIVE ReadmesOf(_)
ReadmesOf(walk) ==
    IF walk = <<>> THEN <<>>
    ELSE ReadmesIn(walk[1]) \o ReadmesOf(Tail(walk))

find_readme_files(repo_name) ==
    IF ~isdir(repo_name) THEN <<>>
    ELSE ReadmesOf(disk[repo_name].walk)

\* a preview that marks a content of exactly budget characters as cut
PreviewAtLeast(content, budget) ==
    Prefix(content, budget) \o (IF Len(content) >= budget THEN Ellipsis ELSE <<>>)

\* what one file adds to a summary: nothing if the text read starts with "File"
\* or "Error", else its heading and its preview of at most budget characters
Preview(content, budget) ==
    Prefix(content, budget) \o (IF Len(content) > budget THEN Ellipsis ELSE <<>>)

RECURSIVE ReadmeEntries(_, _)
ReadmeEntries(repo_name, files) ==
    IF files = <<>> THEN <<>>
    ELSE LET content == read_repository_file(repo_name, files[1])
         IN  (IF ~startswith(content, PrefixFile) /\ ~startswith(content, PrefixError)
              THEN EntryOpen \o files[1] \o EntryClose
                   \o Preview(content, ReadmeBudget) \o BlankLine
              ELSE <<>>)
             \o ReadmeEntries(repo_name, Tail(files))

read_readme_summary(repo_name) ==
    LET readme_files == find_readme_files(repo_name)
    IN  IF readme_files = <<>>
        THEN MsgNoReadmePrefix \o repo_name \o MsgQuoteDot
        ELSE MsgReadmeFoundPrefix \o repo_name \o MsgQuoteColonBlank
             \o ReadmeEntries(repo_name, Slice(readme_files, ReadmeLimit))

\* dirs[:] = [d for d in dirs if d not in excluded_dirs]: os.walk visits a
\* directory only if none of the directories leading to it was removed
Visited(dir) ==
    \A k \in 1..Len(dir.path) : dir.path[k] \notin excluded_dirs

ExtensionOf(file) ==
    lower(splitext(file.name))

IsCode(entry) ==
    \E k \in 1..Len(code_extensions) : code_extensions[k].ext = ExtensionOf(entry.file)

LanguageOf(entry) ==
    code_extensions[CHOOSE k \in 1..Len(code_extensions) :
                        code_extensions[k].ext = ExtensionOf(entry.file)].language

\* code_files: (rel_path, language) of every classified file, in traversal order
CodeFiles(repo_name) ==
    LET found == SelectSeq(FilesOf(SelectSeq(disk[repo_name].walk, Visited)), IsCode)
    IN  AsSeq([i \in 1..Len(found) |->
                  [path |-> found[i].path, language |-> LanguageOf(found[i])]])

RECURSIVE CodeEntries(_, _)
CodeEntries(repo_name, sampled) ==
    IF sampled = <<>> THEN <<>>
    ELSE LET content == read_repository_file(repo_name, sampled[1].path)
         IN  (IF ~startswith(content, PrefixFile) /\ ~startswith(content, PrefixError)
              THEN EntryOpen \o sampled[1].path \o SpaceParen \o sampled[1].language
                   \o ParenEntryClose
                   \o strip(Prefix(content, CodeBudget))
                   \o (IF Len(content) > CodeBudget THEN Ellipsis ELSE <<>>)
                   \o BlankLine
              ELSE <<>>)
             \o CodeEntries(repo_name, Tail(sampled))

sample_repository_code(repo_name, max_files) ==
    IF ~isdir(repo_name)
    THEN MsgRepositoryPrefix \o repo_name \o MsgNotExistTail
    ELSE LET code_files == CodeFiles(repo_name)
             tech_stack == {code_files[i].language : i \in 1..Len(code_files)}
             in_stack(language) == language \in tech_stack
         IN  IF code_files = <<>>
             THEN MsgNoCodePrefix \o repo_name \o MsgQuoteDot
             ELSE MsgRepositoryPrefix \o repo_name \o MsgAnalysisTail
                  \o MsgTechStack \o join(CommaSpace, SelectSeq(SortedLanguages, in_stack))
                  \o Newline
                  \o MsgTotalCodeFiles \o str(Len(code_files)) \o BlankLine
                  \o CodeEntries(repo_name, Slice(code_files, max_files))

(***************************************************************************)
(* Single-Candidate Analyzer.                                              *)
(***************************************************************************)

RECURSIVE IndicatorsAnyTask(_, _, _)
\* indicators that do not ask whether the task names the domain
IndicatorsAnyTask(table, task_lower, content_lower) ==
    IF table = <<>> THEN <<>>
    ELSE LET found(kw) == contains(content_lower, kw)
             matching_keywords == SelectSeq(table[1].keywords, found)
         IN  (IF matching_keywords # <<>>
              THEN <<MsgRelevantFor \o table[1].category \o MsgFound
                     \o repr_list(matching_keywords)>>
              ELSE <<>>)
             \o IndicatorsAnyTask(Tail(table), task_lower, content_lower)

RECURSIVE Indicators(_, _, _)
\* relevance_indicators: one line per domain named in the task with a keyword found
Indicators(table, task_lower, content_lower) ==
    IF table = <<>> THEN <<>>
    ELSE LET found(kw) == contains(content_lower, kw)
             matching_keywords == SelectSeq(table[1].keywords, found)
         IN  (IF contains(task_lower, table[1].category) /\ matching_keywords # <<>>
              THEN <<MsgRelevantFor \o table[1].category \o MsgFound
                     \o repr_list(matching_keywords)>>
              ELSE <<>>)
             \o Indicators(Tail(table), task_lower, content_lower)

analyze_repository_for_task(repo_name, task_description) ==
    LET readme_summary == read_readme_summary(repo_name)
        code_sample == sample_repository_code(repo_name, AnalyzeMaxFiles)
        relevance_indicators ==
            Indicators(tech_keywords, lower(task_description),
                       lower(readme_summary \o code_sample))
    IN  MsgAnalysisOf \o repo_name \o MsgForTask \o task_description \o MsgQuoteBlank
        \o MsgReadmeSummary \o readme_summary \o BlankLine
        \o MsgCodeSample \o code_sample \o BlankLine
        \o (IF relevance_indicators # <<>>
            THEN MsgRelevanceAnalysis \o join(Newline, relevance_indicators)
            ELSE MsgNoRelevance)

(***************************************************************************)
(* Relevance Scorer: lines 293-308 of find_best_repositories_for_task.     *)
(***************************************************************************)

\* s.find(w): where w first occurs, counted from 0, or -1
find(s, w) ==
    IF Occurrences(s, w) = {} THEN 0 - 1
    ELSE (CHOOSE i \in Occurrences(s, w) : \A j \in Occurrences(s, w) : i <= j) - 1

RECURSIVE KeywordScoreFind(_, _)
\* a scorer that calls find where count is meant
KeywordScoreFind(words, analysis_lower) ==
    IF words = <<>> THEN 0
    ELSE (IF Len(words[1]) > MinWordLen
          THEN find(analysis_lower, words[1]) * WordWeight
          ELSE 0)
         + KeywordScoreFind(Tail(words), analysis_lower)

RECURSIVE KeywordScore(_, _)
\* for word in task_lower.split(): if len(word) > 3: score += count * 2
KeywordScore(words, analysis_lower) ==
    IF words = <<>> THEN 0
    ELSE (IF Len(words[1]) > MinWordLen
          THEN count(analysis_lower, words[1]) * WordWeight
          ELSE 0)
         + KeywordScore(Tail(words), analysis_lower)

ReadmeMarked(analysis) ==
    contains(analysis, MarkReadmeFound) /\ ~contains(analysis, MarkNoReadme)

CodeMarked(analysis) ==
    contains(analysis, MarkTechStack)

ScoreOf(task_description, analysis) ==
    KeywordScore(split(lower(task_description)), lower(analysis))
    + (IF ReadmeMarked(analysis) THEN ReadmeBonus ELSE 0)
    + (IF CodeMarked(analysis) THEN CodeBonus ELSE 0)

(***************************************************************************)
(* What reading does to the files.                                         *)
(***************************************************************************)

\* open(full_path, 'w'): a text file that is opened for writing is emptied
opened_for_writing(tree, repo_name, file_path) ==
    LET emptied(d) ==
            [d EXCEPT !.files =
                AsSeq([j \in 1..Len(d.files) |->
                          IF relpath(d.path, d.files[j].name) = file_path
                             /\ d.files[j].kind = "text"
                          THEN [d.files[j] EXCEPT !.content = <<>>]
                          ELSE d.files[j]])]
        walk == tree[repo_name].walk
    IN  [tree EXCEPT ![repo_name].walk = AsSeq([k \in 1..Len(walk) |-> emptied(walk[k])])]

\* open(full_path, 'r', encoding='utf-8') and f.read(): the tree stays as it is
opened(tree, repo_name, file_path) ==
    tree

RECURSIVE AfterReading(_, _, _)
\* the tree once read_repository_file has been called on each of the files
AfterReading(tree, repo_name, files) ==
    IF files = <<>> THEN tree
    ELSE AfterReading(opened(tree, repo_name, files[1]), repo_name, Tail(files))

\* the files read_readme_summary reads
ReadmesRead(repo_name) ==
    Slice(find_readme_files(repo_name), ReadmeLimit)

\* the files sample_repository_code reads
CodeRead(repo_name, max_files) ==
    IF ~isdir(repo_name) THEN <<>>
    ELSE LET sampled == Slice(CodeFiles(repo_name), max_files)
         IN  AsSeq([i \in 1..Len(sampled) |-> sampled[i].path])

\* the tree once analyze_repository_for_task has returned
AfterAnalysis(tree, repo_name) ==
    AfterReading(tree, repo_name,
                 ReadmesRead(repo_name) \o CodeRead(repo_name, AnalyzeMaxFiles))

(***************************************************************************)
(* Multi-Candidate Ranker: find_best_repositories_for_task, step by step.  *)
(***************************************************************************)

MaxListing == 2
MaxBroken == 1
MaxArg == 1

RootStates ==
    {"missing", "notdir", "unlistable", "dir"}

\* the orders in which os.listdir can yield up to MaxListing distinct entries
Listings ==
    UNION {{s \in [1..k -> Entries] : \A i, j \in 1..k : i # j => s[i] # s[j]} :
           k \in 0..MaxListing}

\* the values of max_repos a caller passes, the default among them
Args ==
    ((0 - 1)..MaxArg) \cup {DefaultMaxRepos}

NoPrevious ==
    [outcome |-> "none", text |-> <<>>]

\* no other tool has been called since the last call of the ranker
NoOut ==
    [tool |-> "none", repo |-> <<>>, arg |-> <<>>, n |-> 0, value |-> <<>>, paths |-> <<>>]

\* the list of an earlier call, kept instead of a new one
stale_scores ==
    repo_scores

\* repo_scores = []
fresh_scores ==
    <<>>

\* repos[:max_repos]
selected ==
    Slice(repos, max_repos)

\* a score that is not set to 0 for each candidate: it goes on from the score
\* of the candidate before
scored_carry(repo, task_description) ==
    LET analysis == analyze_repository_for_task(repo, task_description)
        before == IF repo_scores = <<>> THEN 0 ELSE repo_scores[Len(repo_scores)].score
    IN  [repo |-> repo, score |-> before + ScoreOf(task_description, analysis),
         analysis |-> analysis]

\* the tuple (repo, score, analysis) of line 310
scored(repo, task_description) ==
    LET analysis == analyze_repository_for_task(repo, task_description)
    IN  [repo |-> repo, score |-> ScoreOf(task_description, analysis), analysis |-> analysis]

\* an except branch that moves on to the next candidate and records nothing
on_exception_skip(scores, repo, e) ==
    scores

\* the except branch: the candidate is kept, with score 0 and the error text
on_exception(scores, repo, e) ==
    Append(scores, [repo |-> repo, score |-> 0, analysis |-> MsgErrorAnalyzing \o e])

\* where a stable descending sort puts x among the already sorted: after
\* every entry whose score is not lower
InsertDesc(sorted, x) ==
    LET k == Cardinality({i \in 1..Len(sorted) : sorted[i].score >= x.score})
    IN  SubSeq(sorted, 1, k) \o <<x>> \o SubSeq(sorted, k + 1, Len(sorted))

RECURSIVE SortFrom(_, _)
SortFrom(sorted, rest) ==
    IF rest = <<>> THEN sorted
    ELSE SortFrom(InsertDesc(sorted, rest[1]), Tail(rest))

\* where a stable ascending sort puts x: after every entry whose score is not higher
InsertAsc(sorted, x) ==
    LET k == Cardinality({i \in 1..Len(sorted) : sorted[i].score <= x.score})
    IN  SubSeq(sorted, 1, k) \o <<x>> \o SubSeq(sorted, k + 1, Len(sorted))

RECURSIVE SortAscFrom(_, _)
SortAscFrom(sorted, rest) ==
    IF rest = <<>> THEN sorted
    ELSE SortAscFrom(InsertAsc(sorted, rest[1]), Tail(rest))

\* a sort that was not told reverse=True
sort_ascending(scores) ==
    SortAscFrom(<<>>, scores)

\* a stable ascending sort read backwards: descending, equal scores swapped
sort_then_reverse(scores) ==
    LET up == SortAscFrom(<<>>, scores)
    IN  AsSeq([i \in 1..Len(up) |-> up[Len(up) + 1 - i]])

\* repo_scores.sort(key=lambda x: x[1], reverse=True): descending and stable
sort_by_score(scores) ==
    SortFrom(<<>>, scores)

\* result = f"Best repositories for task: '{task_description}'\n\n"
result_header(task_description) ==
    MsgBestRepositories \o task_description \o MsgQuoteBlank

NonBlank(line) ==
    strip(line) # <<>>

\* a summary drawn from the whole report: lines, not lines[:10]
format_entry_whole(i, entry) ==
    str(i) \o DotSpace \o entry.repo \o MsgScoreOpen \o str(entry.score) \o MsgScoreClose
    \o (IF entry.score > 0
        THEN join(Newline,
                  Slice(SelectSeq(splitlines(entry.analysis), NonBlank), SummaryLines))
             \o BlankLine
        ELSE Indent \o entry.analysis \o BlankLine)

\* what the loop of line 321 adds to result for entry i of the ranking
format_entry(i, entry) ==
    str(i) \o DotSpace \o entry.repo \o MsgScoreOpen \o str(entry.score) \o MsgScoreClose
    \o (IF entry.score > 0
        THEN join(Newline,
                  Slice(SelectSeq(Slice(splitlines(entry.analysis), SummaryWindow), NonBlank),
                        SummaryLines))
             \o BlankLine
        ELSE Indent \o entry.analysis \o BlankLine)

Init ==
    /\ root \in RootStates
    /\ listing \in Listings
    /\ disk = Disk
    /\ moved = 0
    /\ root # "dir" => listing = <<>>
    /\ broken \in SUBSET {listing[i] : i \in 1..Len(listing)}
    /\ Cardinality(broken) <= MaxBroken
    /\ \A r \in broken : isdir(r)
    /\ pc = "idle"
    /\ task = <<>>
    /\ max_repos = DefaultMaxRepos
    /\ repos = <<>>
    /\ idx = 0
    /\ repo_scores = <<>>
    /\ pos = 0
    /\ result = <<>>
    /\ previous = NoPrevious
    /\ out = NoOut

\* the agent calls the tool; if it repeats its last call, what that call
\* returned is kept for comparison
Call(t, m) ==
    /\ pc \in {"idle", "done", "raised"}
    /\ task' = t
    /\ max_repos' = m
    /\ result' = <<>>
    /\ previous' = IF pc # "idle" /\ t = task /\ m = max_repos
                   THEN [outcome |-> pc, text |-> result]
                   ELSE NoPrevious
    /\ out' = NoOut
    /\ pc' = "list"
    /\ UNCHANGED <<root, listing, disk, moved, broken, repos, idx, repo_scores, pos>>

\* line 280: os.listdir raises, and nothing catches it
ListRaise ==
    /\ pc = "list"
    /\ list_coding_directories.raised
    /\ pc' = "raised"
    /\ UNCHANGED <<root, listing, disk, moved, broken, task, max_repos, repos, idx, repo_scores,
                   pos, result, previous, out>>

\* lines 280-283
ListEmpty ==
    /\ pc = "list"
    /\ ~list_coding_directories.raised
    /\ list_coding_directories.value = <<>>
    /\ repos' = <<>>
    /\ result' = MsgNoRepositories
    /\ pc' = "done"
    /\ UNCHANGED <<root, listing, disk, moved, broken, task, max_repos, idx, repo_scores, pos, previous, out>>

\* lines 280-288
ListOk ==
    /\ pc = "list"
    /\ ~list_coding_directories.raised
    /\ list_coding_directories.value # <<>>
    /\ repos' = list_coding_directories.value
    /\ repo_scores' = fresh_scores
    /\ idx' = 1
    /\ pc' = "analyze"
    /\ UNCHANGED <<root, listing, disk, moved, broken, task, max_repos, pos, result, previous, out>>

\* lines 288-310: one pass of the loop, the try block completing
AnalyzeOk ==
    /\ pc = "analyze"
    /\ idx <= Len(selected)
    /\ selected[idx] \notin broken
    /\ repo_scores' = Append(repo_scores, scored(selected[idx], task))
    /\ disk' = AfterAnalysis(disk, selected[idx])
    /\ idx' = idx + 1
    /\ UNCHANGED <<root, listing, moved, broken, pc, task, max_repos, repos, pos, result, previous, out>>

\* lines 288-314: one pass of the loop, the try block raising
AnalyzeFail ==
    /\ pc = "analyze"
    /\ idx <= Len(selected)
    /\ selected[idx] \in broken
    /\ repo_scores' = on_exception(repo_scores, selected[idx], ErrAnalysis)
    /\ idx' = idx + 1
    /\ UNCHANGED <<root, listing, disk, moved, broken, pc, task, max_repos, repos, pos, result, previous, out>>

\* lines 316-319
Sort ==
    /\ pc = "analyze"
    /\ idx > Len(selected)
    /\ repo_scores' = sort_by_score(repo_scores)
    /\ result' = result_header(task)
    /\ pos' = 1
    /\ pc' = "format"
    /\ UNCHANGED <<root, listing, disk, moved, broken, task, max_repos, repos, idx, previous, out>>

\* lines 321-329: one pass of the loop
FormatOne ==
    /\ pc = "format"
    /\ pos <= Len(repo_scores)
    /\ result' = result \o format_entry(pos, repo_scores[pos])
    /\ pos' = pos + 1
    /\ UNCHANGED <<root, listing, disk, moved, broken, pc, task, max_repos, repos, idx, repo_scores,
                   previous, out>>

\* line 331
Return ==
    /\ pc = "format"
    /\ pos > Len(repo_scores)
    /\ pc' = "done"
    /\ UNCHANGED <<root, listing, disk, moved, broken, task, max_repos, repos, idx, repo_scores,
                   pos, result, previous, out>>

Next ==
    \/ \E t \in Tasks, m \in Args : Call(t, m)
    \/ ListRaise
    \/ ListEmpty
    \/ ListOk
    \/ AnalyzeOk
    \/ AnalyzeFail
    \/ Sort
    \/ FormatOne
    \/ Return

Spec ==
    Init /\ [][Next]_vars

(***************************************************************************)
(* The other tools, each called on its own, and move_repository_file.      *)
(***************************************************************************)

\* "Source file '"
MsgSourcePrefix ==
    <<"S", "o", "u", "r", "c", "e", " ", "f", "i", "l", "e", " ", "'">>

\* "' has been moved/renamed to '"
MsgMovedMid ==
    <<"'", " ", "h", "a", "s", " ", "b", "e", "e", "n", " ", "m", "o", "v", "e", "d", "/", "r",
      "e", "n", "a", "m", "e", "d", " ", "t", "o", " ", "'">>

\* "' in repository '"
MsgInRepository ==
    <<"'", " ", "i", "n", " ", "r", "e", "p", "o", "s", "i", "t", "o", "r", "y", " ", "'">>

MaxMoves == 1

\* the values of max_files a caller passes, the default among them
FileArgs ==
    ((0 - 1)..MaxArg) \cup {DefaultMaxFiles}

\* the coding directories the tools are called on
ToolListings ==
    {<<>>, <<NameL, NameM, NameH, NameF>>}

\* the (repo_name, source_file_path, destination_file_path) a caller passes
MoveArgs ==
    {[repo |-> NameL, source |-> <<"r", "e", "a", "d", "m", "e", ".", "t", "x", "t">>,
      destination |-> <<"d", "o", "c", "s", "/", "r", "e", "a", "d", "m", "e", ".", "t", "x", "t">>],
     [repo |-> NameL, source |-> <<"a", ".", "j", "s">>,
      destination |-> <<"b", "u", "i", "l", "d", "/", "a", ".", "j", "s">>],
     [repo |-> NameM, source |-> <<"R", "E", "A", "D", "M", "E">>,
      destination |-> <<"N", "O", "T", "E", "S">>],
     [repo |-> NameH, source |-> <<"g", "o", "n", "e", ".", "p", "y">>,
      destination |-> <<"h", "e", "r", "e", ".", "p", "y">>],
     [repo |-> NameA, source |-> <<"m", "a", "i", "n", ".", "p", "y">>,
      destination |-> <<"a", "p", "p", ".", "p", "y">>]}

\* the components of a relative path
components(path) ==
    CutAt(path, {i \in 1..Len(path) : path[i] = "/"}, 1)

\* os.path.dirname, as components
dirname(path) ==
    SubSeq(components(path), 1, Len(components(path)) - 1)

\* os.path.basename
basename(path) ==
    components(path)[Len(components(path))]

\* the directories of a tree that have the given path
DirsAt(tree, repo_name, dir) ==
    {k \in 1..Len(tree[repo_name].walk) : tree[repo_name].walk[k].path = dir}

\* os.path.exists(os.path.join(coding_dir, repo_name, path)), path not empty: a
\* directory, or a file that is not a dangling link
exists(repo_name, path) ==
    /\ isdir(repo_name)
    /\ \/ DirsAt(disk, repo_name, components(path)) # {}
       \/ Lookup(repo_name, path).kind # "missing"

\* os.makedirs(dest_dir): a directory that was not there is listed last
makedirs(walk, dir) ==
    IF \E k \in 1..Len(walk) : walk[k].path = dir THEN walk
    ELSE Append(walk, [path |-> dir, files |-> <<>>])

\* a directory without the file of the given name
Without(d, name) ==
    LET other(file) == file.name # name
    IN  [d EXCEPT !.files = SelectSeq(d.files, other)]

\* a directory with the file listed after its first k files
With(d, file, k) ==
    [d EXCEPT !.files = SubSeq(d.files, 1, k) \o <<file>> \o SubSeq(d.files, k + 1, Len(d.files))]

\* os.rename(source_path, destination_path) of a file: it leaves its directory
\* and is listed in the destination's, where a file of that name is replaced
rename(walk, source, destination, k) ==
    LET from == CHOOSE i \in 1..Len(walk) : walk[i].path = dirname(source)
        file == CHOOSE f \in {walk[from].files[i] : i \in 1..Len(walk[from].files)} :
                    f.name = basename(source)
        taken == [walk EXCEPT ![from] = Without(walk[from], basename(source))]
        to == CHOOSE i \in 1..Len(taken) : taken[i].path = dirname(destination)
        cleared == Without(taken[to], basename(destination))
    IN  [taken EXCEPT ![to] = With(cleared, [file EXCEPT !.name = basename(destination)],
                                   IF k < Len(cleared.files) THEN k ELSE Len(cleared.files))]

\* the places of a directory listing a renamed file can take
Places(repo_name, destination) ==
    LET at == DirsAt(disk, repo_name, dirname(destination))
    IN  IF at = {} THEN {0}
        ELSE 0..Len(disk[repo_name].walk[CHOOSE k \in at : TRUE].files)

\* move_repository_file: the text returned and the tree left behind
move_repository_file(repo_name, source_file_path, destination_file_path, k) ==
    IF ~exists(repo_name, source_file_path)
    THEN [value |-> MsgSourcePrefix \o source_file_path \o MsgFileMissingMid
                    \o repo_name \o MsgQuoteDot,
          tree |-> disk]
    ELSE [value |-> MsgFilePrefix \o source_file_path \o MsgMovedMid
                    \o destination_file_path \o MsgInRepository \o repo_name \o MsgQuoteDot,
          tree |-> [disk EXCEPT ![repo_name].walk =
                        rename(makedirs(@, dirname(destination_file_path)),
                               source_file_path, destination_file_path, k)]]

\* the caller may call a tool that reads: it has called none since the files
\* last changed
MayRead ==
    pc = "idle" /\ out.tool \in {"none", "move"}

\* a call of list_coding_directories
CallList ==
    /\ MayRead
    /\ out' = [NoOut EXCEPT !.tool = "list",
                            !.value = IF list_coding_directories.raised
                                      THEN ErrAnalysis ELSE <<>>,
                            !.paths = list_coding_directories.value]
    /\ UNCHANGED <<root, listing, disk, moved, broken, pc, task, max_repos, repos, idx,
                   repo_scores, pos, result, previous>>

\* a call of find_readme_files
CallFind(r) ==
    /\ MayRead
    /\ out' = [NoOut EXCEPT !.tool = "find", !.repo = r, !.paths = find_readme_files(r)]
    /\ UNCHANGED <<root, listing, disk, moved, broken, pc, task, max_repos, repos, idx,
                   repo_scores, pos, result, previous>>

\* a call of read_readme_summary
CallReadme(r) ==
    /\ MayRead
    /\ out' = [NoOut EXCEPT !.tool = "readme", !.repo = r, !.value = read_readme_summary(r)]
    /\ disk' = AfterReading(disk, r, ReadmesRead(r))
    /\ UNCHANGED <<root, listing, moved, broken, pc, task, max_repos, repos, idx,
                   repo_scores, pos, result, previous>>

\* a call of sample_repository_code
CallSample(r, n) ==
    /\ MayRead
    /\ out' = [NoOut EXCEPT !.tool = "sample", !.repo = r, !.n = n,
                            !.value = sample_repository_code(r, n)]
    /\ disk' = AfterReading(disk, r, CodeRead(r, n))
    /\ UNCHANGED <<root, listing, moved, broken, pc, task, max_repos, repos, idx,
                   repo_scores, pos, result, previous>>

\* a call of analyze_repository_for_task
CallAnalyze(r, t) ==
    /\ MayRead
    /\ out' = [NoOut EXCEPT !.tool = "analyze", !.repo = r, !.arg = t,
                            !.value = analyze_repository_for_task(r, t)]
    /\ disk' = AfterAnalysis(disk, r)
    /\ UNCHANGED <<root, listing, moved, broken, pc, task, max_repos, repos, idx,
                   repo_scores, pos, result, previous>>

\* a call of move_repository_file
CallMove(a) ==
    /\ pc = "idle"
    /\ moved < MaxMoves
    /\ \E k \in Places(a.repo, a.destination) :
           /\ out' = [NoOut EXCEPT !.tool = "move", !.repo = a.repo, !.arg = a.source,
                                   !.value = move_repository_file(a.repo, a.source,
                                                                  a.destination, k).value]
           /\ disk' = move_repository_file(a.repo, a.source, a.destination, k).tree
    /\ moved' = IF exists(a.repo, a.source) THEN moved + 1 ELSE moved
    /\ UNCHANGED <<root, listing, broken, pc, task, max_repos, repos, idx,
                   repo_scores, pos, result, previous>>

\* the coding directory the tools are called on, before the first call
InitTools ==
    /\ root \in RootStates
    /\ listing \in ToolListings
    /\ root # "dir" => listing = <<>>
    /\ disk = Disk
    /\ moved = 0
    /\ broken \in SUBSET {listing[i] : i \in 1..Len(listing)}
    /\ Cardinality(broken) <= MaxBroken
    /\ \A r \in broken : isdir(r)
    /\ pc = "idle"
    /\ task = <<>>
    /\ max_repos = DefaultMaxRepos
    /\ repos = <<>>
    /\ idx = 0
    /\ repo_scores = <<>>
    /\ pos = 0
    /\ result = <<>>
    /\ previous = NoPrevious
    /\ out = NoOut

NextTools ==
    \/ Next
    \/ CallList
    \/ \E r \in DOMAIN Disk : CallFind(r)
    \/ \E r \in DOMAIN Disk : CallReadme(r)
    \/ \E r \in DOMAIN Disk, n \in FileArgs : CallSample(r, n)
    \/ \E r \in DOMAIN Disk, t \in Tasks : CallAnalyze(r, t)
    \/ \E a \in MoveArgs : CallMove(a)

SpecTools ==
    InitTools /\ [][NextTools]_vars

(***************************************************************************)
(* Properties.                                                             *)
(***************************************************************************)

\* the candidates find_best_repositories_for_task has scored, not failed on
Scored ==
    {i \in 1..Len(repo_scores) : repo_scores[i].repo \notin broken}

\* the place of a candidate in the order of the directory listing
Place(repo) ==
    CHOOSE i \in 1..Len(repos) : repos[i] = repo

RECURSIVE Rendered(_, _)
\* the text that lists the first k entries in their order, one numbered entry each
Rendered(entries, k) ==
    IF k = 0 THEN result_header(task)
    ELSE Rendered(entries, k - 1) \o format_entry(k, entries[k])

\* the retained words of the task: the tokens longer than three characters
Retained ==
    LET words == split(lower(task))
    IN  {words[k] : k \in {n \in 1..Len(words) : Len(words[n]) > MinWordLen}}

\* C1: the returned text lists the scored candidates as numbered entries in
\* non-increasing order of the score printed for them.
RankingDescending ==
    (pc = "done" /\ repos # <<>>) =>
        /\ result = Rendered(repo_scores, Len(repo_scores))
        /\ \A i \in 1..(Len(repo_scores) - 1) :
               repo_scores[i].score >= repo_scores[i + 1].score

\* C1 witness: a ranking whose first entry was listed second and scored higher
RankingDescendingWitness ==
    /\ pc = "done"
    /\ Len(repo_scores) >= 2
    /\ repo_scores[1].repo = repos[2]
    /\ repo_scores[1].score > repo_scores[2].score

\* C2: two ranked candidates with equal scores are printed in the order of the
\* directory listing.
RankingStable ==
    (pc = "done" /\ repos # <<>>) =>
        \A i, j \in 1..Len(repo_scores) :
            (i < j /\ repo_scores[i].score = repo_scores[j].score)
                => Place(repo_scores[i].repo) < Place(repo_scores[j].repo)

\* C2 witness: R listed before H, both scoring 8, R printed first
RankingStableWitness ==
    /\ pc = "done"
    /\ repos = <<NameR, NameH>>
    /\ Len(repo_scores) = 2
    /\ repo_scores[1].repo = NameR
    /\ repo_scores[1].score = repo_scores[2].score
    /\ repo_scores[1].score > 0

\* C3: a candidate whose analysis raises is still ranked, with score 0 and the
\* error message; every candidate taken from the listing is ranked exactly once,
\* and the others have the score their own analysis gives.
FailureIsolated ==
    (pc = "done" /\ repos # <<>>) =>
        /\ Len(repo_scores) = Len(selected)
        /\ \A k \in 1..Len(selected) :
               \E i \in 1..Len(repo_scores) :
                   /\ repo_scores[i].repo = selected[k]
                   /\ IF selected[k] \in broken
                      THEN /\ repo_scores[i].score = 0
                           /\ startswith(repo_scores[i].analysis, MsgErrorAnalyzing)
                      ELSE repo_scores[i].score
                               = ScoreOf(task, analyze_repository_for_task(selected[k], task))

\* C3 witness: the first candidate failed, the second was scored above 0
FailureIsolatedWitness ==
    /\ pc = "done"
    /\ Len(selected) = 2
    /\ selected[1] \in broken
    /\ selected[2] \notin broken
    /\ repo_scores[1].repo = selected[2]
    /\ repo_scores[1].score > 0
    /\ repo_scores[2].score = 0

\* C4: no exception ever reaches the caller of find_best_repositories_for_task.
NeverThrows ==
    pc # "raised"

\* the documentation and code preview text of a candidate
Corpus(repo) ==
    read_readme_summary(repo) \o sample_repository_code(repo, AnalyzeMaxFiles)

\* the bonuses a score holds
Bonuses(entry) ==
    (IF ReadmeMarked(entry.analysis) THEN ReadmeBonus ELSE 0)
    + (IF CodeMarked(entry.analysis) THEN CodeBonus ELSE 0)

\* C5: the keyword part of a score is twice the number of occurrences of the
\* retained task tokens in the documentation and code preview text.
KeywordPartCountsCorpus ==
    pc = "done" =>
        \A i \in Scored :
            repo_scores[i].score - Bonuses(repo_scores[i])
                = KeywordScore(split(lower(task)), lower(Corpus(repo_scores[i].repo)))

\* C6: the documentation bonus is in a score exactly when the candidate has a
\* README file, the code bonus exactly when it has a classified source file.
BonusIffFound ==
    pc = "done" =>
        \A i \in Scored :
            repo_scores[i].score - KeywordScore(split(lower(task)),
                                                lower(repo_scores[i].analysis))
                = (IF find_readme_files(repo_scores[i].repo) # <<>> THEN ReadmeBonus ELSE 0)
                  + (IF CodeFiles(repo_scores[i].repo) # <<>> THEN CodeBonus ELSE 0)

\* C7: appending the short token "web" to the task leaves every score as it is.
ShortTokenIgnored ==
    (pc = "done" /\ task = TaskDataWeb) =>
        \A i \in Scored :
            repo_scores[i].score = scored(repo_scores[i].repo, TaskData).score

RepeatableResult ==
    (pc \in {"done", "raised"} /\ previous.outcome # "none") =>
        /\ previous.outcome = pc
        /\ previous.text = result

\* C9 witness: a repeated call that ranked two candidates
RepeatableResultWitness ==
    /\ pc = "done"
    /\ previous.outcome = "done"
    /\ Len(repo_scores) = 2
    /\ previous.text = result

\* C10: the ranking holds the first max_repos candidates of the listing, each
\* once, and no other: min(max_repos, n) entries, none when that is negative.
RanksFirstMaxRepos ==
    (pc = "done" /\ repos # <<>>) =>
        LET n == IF max_repos < Len(repos) THEN max_repos ELSE Len(repos)
            m == IF n < 0 THEN 0 ELSE n
        IN  /\ Len(repo_scores) = m
            /\ \A k \in 1..m : \E i \in 1..Len(repo_scores) : repo_scores[i].repo = repos[k]


\* the lines among the first `window` lines that are not blank, at most `most`
FirstNonBlank(lines, window, most) ==
    LET live == {i \in 1..Len(lines) : i <= window /\ NonBlank(lines[i])}
        kept == {i \in live : Cardinality({j \in live : j <= i}) <= most}
    IN  AsSeq([k \in 1..Cardinality(kept) |->
                  lines[CHOOSE i \in kept : Cardinality({j \in kept : j <= i}) = k]])

\* the numbered entry of a candidate, its summary drawn from a window of lines
EntryText(i, entry, window) ==
    str(i) \o DotSpace \o entry.repo \o MsgScoreOpen \o str(entry.score) \o MsgScoreClose
    \o (IF entry.score > 0
        THEN join(Newline, FirstNonBlank(splitlines(entry.analysis), window, SummaryLines))
        ELSE Indent \o entry.analysis)
    \o BlankLine

RECURSIVE Listed(_, _, _)
\* the returned text if every summary is drawn from the window that `whole`
\* tells: the whole report, or its first SummaryWindow lines
Listed(entries, k, whole) ==
    IF k = 0 THEN result_header(task)
    ELSE Listed(entries, k - 1, whole)
         \o EntryText(k, entries[k],
                      IF whole THEN Len(entries[k].analysis) + 1 ELSE SummaryWindow)

\* C11, amended: each ranked candidate has a numbered line with its score,
\* followed, when the score is above 0, by the non-blank lines among the first
\* ten lines of its report, at most five of them, and when the score is 0 by
\* the whole failure or low-relevance message.
SummaryFromFirstTen ==
    (pc = "done" /\ repos # <<>>) =>
        result = Listed(repo_scores, Len(repo_scores), FALSE)

\* C11 witness: N is ranked with a score above 0 and a report whose first ten
\* lines hold fewer than five non-blank lines, while the report has five or more
SummaryFromFirstTenWitness ==
    /\ pc = "done"
    /\ \E i \in 1..Len(repo_scores) :
           /\ repo_scores[i].repo = NameN
           /\ repo_scores[i].score > 0
           /\ Len(FirstNonBlank(splitlines(repo_scores[i].analysis), SummaryWindow,
                                SummaryLines)) < SummaryLines
           /\ Len(SelectSeq(splitlines(repo_scores[i].analysis), NonBlank)) >= SummaryLines

\* C11 as stated: the summary of a candidate with a score above 0 is the first
\* five non-blank lines of its report, all of them if it has fewer than five.
SummaryFirstFive ==
    (pc = "done" /\ repos # <<>>) =>
        result = Listed(repo_scores, Len(repo_scores), TRUE)

\* where the headings "=== ... ===" of a summary start: at the start of a line
Headings(text) ==
    {i \in Occurrences(text, EntryOpen) : i = 1 \/ text[i - 1] = "\n"}

\* how long the preview under the heading that starts at h is: from the line
\* after the heading up to the blank line before the next heading or the end
PreviewLength(text, h) ==
    LET later == {i \in Headings(text) : i > h}
        stop == IF later = {} THEN Len(text) + 1
                ELSE CHOOSE i \in later : \A j \in later : i <= j
        breaks == {i \in h..Len(text) : text[i] = "\n"}
        start == (CHOOSE i \in breaks : \A j \in breaks : i <= j) + 1
    IN  stop - start - Len(BlankLine)

\* C12: sample_repository_code returns at most max_files previews, whatever
\* max_files is (none when it is below 1), and no preview is longer than its
\* budget (200 characters of code, 500 of documentation) plus the three
\* characters of "...".
SampleWithinLimits ==
    /\ out.tool = "sample" =>
           /\ Cardinality(Headings(out.value)) <= (IF out.n > 0 THEN out.n ELSE 0)
           /\ \A h \in Headings(out.value) :
                  PreviewLength(out.value, h) <= CodeBudget + Len(Ellipsis)
    /\ out.tool = "readme" =>
           \A h \in Headings(out.value) :
               PreviewLength(out.value, h) <= ReadmeBudget + Len(Ellipsis)

\* where the heading line that starts at h ends: its newline
HeadingEnd(text, h) ==
    LET breaks == {i \in h..Len(text) : text[i] = "\n"}
    IN  CHOOSE i \in breaks : \A j \in breaks : i <= j

\* the path a documentation heading "=== path ===" names
HeadingPath(text, h) ==
    SubSeq(text, h + Len(EntryOpen), HeadingEnd(text, h) - Len(EntryClose))

\* the preview printed under the heading that starts at h
PreviewText(text, h) ==
    SubSeq(text, HeadingEnd(text, h) + 1, HeadingEnd(text, h) + PreviewLength(text, h))

\* C13: each documentation file read_readme_summary includes is previewed by
\* its first 500 characters followed by "..." if it is longer than 500
\* characters, and by its whole content, without the marker, if it is not.
ReadmePreviewCut ==
    out.tool = "readme" =>
        \A h \in Headings(out.value) :
            LET content == Lookup(out.repo, HeadingPath(out.value, h)).content
            IN  PreviewText(out.value, h) =
                    IF Len(content) > ReadmeBudget
                    THEN SubSeq(content, 1, ReadmeBudget) \o Ellipsis
                    ELSE content

\* C13 witness: M's README of exactly 500 characters is previewed whole
ReadmePreviewCutWitness ==
    /\ out.tool = "readme"
    /\ out.repo = NameM
    /\ \E h \in Headings(out.value) :
           /\ Len(Lookup(NameM, HeadingPath(out.value, h)).content) = ReadmeBudget
           /\ Len(PreviewText(out.value, h)) = ReadmeBudget

\* C14: for a candidate that does not exist or is not a directory,
\* sample_repository_code returns "Repository '<name>' does not exist.", and
\* the report analyze_repository_for_task builds for it scores 0 under every
\* task description.
MissingCandidateScoresZero ==
    /\ (out.tool = "sample" /\ ~isdir(out.repo)) =>
           out.value = MsgRepositoryPrefix \o out.repo \o MsgNotExistTail
    /\ (out.tool = "analyze" /\ ~isdir(out.repo)) =>
           /\ contains(out.value, MsgRepositoryPrefix \o out.repo \o MsgNotExistTail)
           /\ ScoreOf(out.arg, out.value) = 0

\* the relative paths of the files of a candidate whose name begins with
\* "README" in any case, in the directories that are not excluded
ReadmePaths(repo_name) ==
    LET all == FilesOf(SelectSeq(disk[repo_name].walk, Visited))
    IN  {all[i].path : i \in {k \in 1..Len(all) : IsReadme(all[k].file)}}

\* C15: find_readme_files returns the relative path of each README file once,
\* none repeated and none left out, and read_readme_summary previews up to
\* three distinct files.
ReadmePathsOnce ==
    /\ (out.tool = "find" /\ isdir(out.repo)) =>
           /\ \A i, j \in 1..Len(out.paths) : i # j => out.paths[i] # out.paths[j]
           /\ \A p \in ReadmePaths(out.repo) : \E i \in 1..Len(out.paths) : out.paths[i] = p
    /\ out.tool = "readme" =>
           /\ Cardinality(Headings(out.value)) <= ReadmeLimit
           /\ \A g, h \in Headings(out.value) :
                  g # h => HeadingPath(out.value, g) # HeadingPath(out.value, h)

\* the last section of a report: what follows its last blank line
LastSection(text) ==
    LET breaks == Occurrences(text, BlankLine)
    IN  SubSeq(text, (CHOOSE i \in breaks : \A j \in breaks : i >= j) + Len(BlankLine),
               Len(text))

\* the lower-cased documentation-plus-code text of a candidate
ContentLower(repo_name) ==
    lower(read_readme_summary(repo_name)
          \o sample_repository_code(repo_name, AnalyzeMaxFiles))

\* the keywords of domain k found in the documentation-plus-code text
Matching(k, repo_name) ==
    LET found(kw) == contains(ContentLower(repo_name), kw)
    IN  SelectSeq(tech_keywords[k].keywords, found)

\* the domains the task names that have a keyword in the text
Relevant(repo_name, task_description) ==
    {k \in 1..Len(tech_keywords) :
        /\ contains(lower(task_description), tech_keywords[k].category)
        /\ Matching(k, repo_name) # <<>>}

\* the line that reports domain k
RelevantLine(k, repo_name) ==
    MsgRelevantFor \o tech_keywords[k].category \o MsgFound
    \o repr_list(Matching(k, repo_name))

\* C16: the report has a line "Relevant for <domain>: found [...]" exactly for
\* the domains whose name is in the lower-cased task and that have a keyword in
\* the lower-cased documentation-plus-code text; the line lists exactly the
\* matching keywords in table order; the fixed line "No specific relevance
\* indicators found for the given task." is there exactly if there is no such
\* domain.
RelevanceLines ==
    out.tool = "analyze" =>
        LET lines == splitlines(LastSection(out.value))
            shown == {lines[i] : i \in 1..Len(lines)}
            due == Relevant(out.repo, out.arg)
        IN  /\ \A k \in 1..Len(tech_keywords) :
                   (k \in due) <=>
                       (\E l \in shown :
                            startswith(l, MsgRelevantFor \o tech_keywords[k].category
                                          \o MsgFound))
            /\ \A k \in due : RelevantLine(k, out.repo) \in shown
            /\ due # {} => Len(lines) = Cardinality(due) + 1
            /\ (due = {}) <=> (LastSection(out.value) = MsgNoRelevance)
            /\ (due = {}) <=> ~contains(out.value, MsgRelevantFor)

\* C16 witness: a report with lines for two domains, one of which lists fewer
\* keywords than its domain has
RelevanceLinesWitness ==
    /\ out.tool = "analyze"
    /\ Cardinality(Relevant(out.repo, out.arg)) >= 2
    /\ \E k \in Relevant(out.repo, out.arg) :
           /\ Len(Matching(k, out.repo)) < Len(tech_keywords[k].keywords)
           /\ contains(out.value, RelevantLine(k, out.repo))

\* a relative path leads through an excluded directory
Excluded(path) ==
    \E k \in 1..Len(dirname(path)) : dirname(path)[k] \in excluded_dirs

\* the path a code heading "=== path (language) ===" names
SampledPath(text, h) ==
    LET heading == HeadingPath(text, h)
        parens == Occurrences(heading, SpaceParen)
    IN  SubSeq(heading, 1, (CHOOSE i \in parens : \A j \in parens : i >= j) - 1)

\* the files with a listed extension outside the excluded directories, in
\* traversal order
Matches(repo_name) ==
    LET has_listed_extension(entry) ==
            \E k \in 1..Len(code_extensions) :
                code_extensions[k].ext = lower(splitext(entry.file.name))
        outside(entry) == ~Excluded(entry.path)
        all == FilesOf(disk[repo_name].walk)
    IN  SelectSeq(SelectSeq(all, outside), has_listed_extension)

\* C17: neither find_readme_files nor sample_repository_code goes into an
\* excluded directory, at any depth; a sampled file has a listed extension and
\* is among the first max_files matching files in traversal order.
ExcludedNeverVisited ==
    /\ out.tool = "find" =>
           \A i \in 1..Len(out.paths) : ~Excluded(out.paths[i])
    /\ (out.tool = "sample" /\ out.n >= 0) =>
           \A h \in Headings(out.value) :
               \E i \in 1..Len(Matches(out.repo)) :
                   /\ i <= out.n
                   /\ Matches(out.repo)[i].path = SampledPath(out.value, h)

\* what a candidate is given on the strength of the task and its own files
OwnEntry(repo) ==
    LET analysis == analyze_repository_for_task(repo, task)
    IN  IF repo \in broken
        THEN [repo |-> repo, score |-> 0, analysis |-> MsgErrorAnalyzing \o ErrAnalysis]
        ELSE [repo |-> repo, score |-> ScoreOf(task, analysis), analysis |-> analysis]

\* C18: the score and the report recorded for a candidate depend on the task
\* and on that candidate alone: whatever other candidates are listed, ranked
\* before it or failing, the entry recorded for it in the loop, and the entry
\* it has when the ranking is returned, is the one it would have on its own.
NoSharedState ==
    /\ (pc = "analyze" /\ repo_scores # <<>>) =>
           repo_scores[Len(repo_scores)] = OwnEntry(repo_scores[Len(repo_scores)].repo)
    /\ pc = "done" =>
           \A i \in 1..Len(repo_scores) : repo_scores[i] = OwnEntry(repo_scores[i].repo)

\* C18 witness: two candidates are ranked, the one analyzed second after one
\* with a score above 0, and their scores differ
NoSharedStateWitness ==
    /\ pc = "done"
    /\ Len(repo_scores) = 2
    /\ \A i \in 1..2 : repo_scores[i].repo \notin broken /\ repo_scores[i].score > 0
    /\ repo_scores[1].score # repo_scores[2].score
    /\ repo_scores[1].repo = repos[2]

\* C19: listing, finding and previewing README files, sampling, analyzing and
\* ranking leave every file and directory as it was, in every outcome; the
\* files change only in a call of move_repository_file.
AnalysisReadOnly ==
    [][disk' # disk => (out'.tool = "move" /\ moved' = moved + 1)]_vars

\* C19 witness: after a file was moved, the ranker has analyzed candidates and
\* returned, and the files are as the move left them
AnalysisReadOnlyWitness ==
    /\ pc = "done"
    /\ repo_scores # <<>>
    /\ moved = 1
    /\ disk # Disk
    /\ disk[NameL].walk = rename(makedirs(Disk[NameL].walk, <<<<"d", "o", "c", "s">>>>),
                                 <<"r", "e", "a", "d", "m", "e", ".", "t", "x", "t">>,
                                 <<"d", "o", "c", "s", "/", "r", "e", "a", "d", "m", "e",
                                   ".", "t", "x", "t">>, 0)

\* how many tokens of the task are longer than three characters, each counted
\* as often as it occurs
LongTokens ==
    Len(SelectSeq(split(lower(task)), LAMBDA w : Len(w) > MinWordLen))

\* a candidate holds a file whose name begins with "README" in any case
HasReadme(repo) ==
    \E i \in 1..Len(FilesOf(disk[repo].walk)) : IsReadme(FilesOf(disk[repo].walk)[i].file)

\* C20: a candidate whose analysis succeeds scores at least twice the number
\* of task tokens longer than three characters; so it scores 0 only if the
\* task has no such token and the candidate has neither a README nor a
\* classified source file.
ScoreFloor ==
    (pc = "done" /\ repos # <<>>) =>
        \A i \in Scored :
            /\ repo_scores[i].score >= WordWeight * LongTokens
            /\ repo_scores[i].score = 0 =>
                   /\ LongTokens = 0
                   /\ ~HasReadme(repo_scores[i].repo)
                   /\ CodeFiles(repo_scores[i].repo) = <<>>

\* whether the report has an entry for the documentation file at path
ReadmeReported(text, path) ==
    \E h \in Headings(text) : HeadingPath(text, h) = path

\* whether the report has an entry for the source file at path
CodeReported(text, path) ==
    \E h \in Headings(text) : SampledPath(text, h) = path

\* C21: every selected file that read_repository_file can read has its
\* "=== path ===" entry in the report, whatever its content is: each of the
\* first 3 README files found and each of the first max_files source files
\* sampled; only missing, binary or unreadable files are left out.
ReadableFilesAppear ==
    /\ (out.tool = "readme" /\ isdir(out.repo)) =>
           LET selected_files == Slice(find_readme_files(out.repo), ReadmeLimit)
           IN  \A i \in 1..Len(selected_files) :
                   Lookup(out.repo, selected_files[i]).kind = "text" =>
                       ReadmeReported(out.value, selected_files[i])
    /\ (out.tool = "sample" /\ isdir(out.repo) /\ out.n >= 0) =>
           LET selected_files == Slice(CodeFiles(out.repo), out.n)
           IN  \A i \in 1..Len(selected_files) :
                   Lookup(out.repo, selected_files[i].path).kind = "text" =>
                       CodeReported(out.value, selected_files[i].path)
=============================================================================
